---- MODULE Spec2Model ----
(***************************************************************************)
(* Model of the dispatch-and-simulation engine of mySafeRoute-backend:     *)
(*   - DispatchService   (src/src/services/dispatch.service.ts)            *)
(*   - SimulationService (src/src/services/simulation.service.ts)          *)
(*   - RoutingService    (src/src/services/routing.service.ts)             *)
(*   - DestinationService(src/src/services/destination.service.ts)         *)
(*   - the HTTP handlers that call them (src/src/modules/.../routes.ts)    *)
(*                                                                         *)
(* Node runs one callback at a time.  Every `await` of a storage or        *)
(* routing call splits a handler in two: the step that issues the call     *)
(* and the step in which the call takes effect and the continuation runs   *)
(* up to the next await.  A pending continuation is a record in `tasks`.   *)
(* Timers (setInterval) are records in `timers`; a one-shot setTimeout or  *)
(* setImmediate is a pending task.                                         *)
(*                                                                         *)
(* Geometry: positions are integer metres along one meridian, where the    *)
(* Haversine distance of two points is the absolute difference.            *)
(***************************************************************************)
EXTENDS Integers, Sequences, FiniteSets, Bags, TLC

VARIABLES
    ambStatus,          \* ambulance table: status
    ambPos,             \* ambulance table: currentLat (currentLng is fixed)
    ambHospitalId,      \* ambulance table: hospitalId
    ambType,            \* ambulance table: type
    hospitals,          \* hospital table: the ids of the rows present
    incStatus,          \* incident table: status
    incAssigned,        \* incident table: assignedAmbulanceId (0 = null)
    activeSimulations,  \* SimulationService.activeSimulations: incident id -> simulation object (0 = absent)
    sims,               \* the ActiveSimulation objects ever created (closures keep them alive)
    timers,             \* the setInterval timers ever created, with their closure variables
    tasks,              \* bag of pending continuations (awaits, setImmediate, setTimeout)
    nRequests,          \* dispatch and assign requests made so far
    nCancels,           \* cancel requests made so far
    emitted,            \* events handed to broadcastToDispatchers by the last step
    lastWrite,          \* the ambulance write performed by the last step
    obs,                \* what the last step computed or returned to its caller
    hist,               \* per simulation object: summary of the events it emitted
    cancelReturned,     \* simulation objects for which cancelSimulation has returned true
    claimed             \* <<incident, ambulance>> pairs whose EN_ROUTE claim write has completed

vars == <<ambStatus, ambPos, ambHospitalId, ambType, hospitals, incStatus, incAssigned,
          activeSimulations, sims, timers, tasks, nRequests, nCancels,
          emitted, lastWrite, obs, hist, cancelReturned, claimed>>

dbAmbVars == <<ambStatus, ambPos, ambHospitalId, ambType>>
incVars == <<incStatus, incAssigned>>
simVars == <<activeSimulations, sims, timers>>

-----------------------------------------------------------------------------
(* Bounds of the model *)

MaxRequests == 2        \* dispatch + assign requests in one behaviour
MaxCancels == 1         \* cancel requests in one behaviour
MaxInFlight == 2        \* tick callbacks of one timer whose storage write is pending
MaxOverrun == 1         \* fires of a timer beyond its totalSteps
MaxTimers == 3          \* setInterval timers created in one behaviour
MaxReuse == 3           \* dispatch requests for the one incident of SpecReuse
MaxSlowRequests == 1    \* dispatch requests of SpecSlow
MaxSelectRequests == 1  \* dispatch requests of SpecSelect
MaxLifecycleRequests == 1   \* dispatch requests of SpecLifecycle
MaxIncidentRequests == 3    \* assign + status requests of SpecIncident
MaxRouteRequests == 1       \* dispatch requests of SpecRoute
MaxPairRequests == 2        \* dispatch requests of SpecPair

-----------------------------------------------------------------------------
(* Program constants *)

ON_SCENE_DURATION == 3000
UPDATE_INTERVAL == 1000
MIN_PHASE_DURATION_SECONDS == 5
SIMULATION_SPEED_MULTIPLIER == 1
TORTUOSITY_TENTHS == 14         \* TORTUOSITY_FACTOR = 1.4, in tenths
HAZARD_PENALTY_SECONDS == 600
AVERAGE_SPEED_KMH == 50

NoType == "NONE"                \* requiredType undefined
AmbulanceTypes == {"RRV", "BLS", "ALS", "CCT"}
IncidentStatuses ==
    {"PENDING", "DISPATCHED", "EN_ROUTE", "ON_SCENE", "TRANSPORTING", "COMPLETED", "CANCELLED"}

AmbulanceStatuses == {"IDLE", "EN_ROUTE", "ON_SCENE", "TRANSPORTING"}

TYPE_HIERARCHY == [RRV |-> 0, BLS |-> 1, ALS |-> 2, CCT |-> 3]

-----------------------------------------------------------------------------
(* Arithmetic helpers *)

Abs(x) == IF x < 0 THEN -x ELSE x

Max(a, b) == IF a >= b THEN a ELSE b

Min(a, b) == IF a <= b THEN a ELSE b

\* Math.round(n / d) for n >= 0, d > 0: halves round up
MathRound(n, d) == (2 * n + d) \div (2 * d)

\* Math.ceil(n / d) for n >= 0, d > 0
MathCeil(n, d) == (n + d - 1) \div d

\* haversineDistance on one meridian, in metres
haversineDistance(a, b) == Abs(a - b)

-----------------------------------------------------------------------------
(* RoutingService *)

\* etaSeconds = round(d * 1.4 / (50 / 3.6)) = round(d * 14 * 36 / (100 * 50))
calculateETA(start, end) ==
    MathRound(haversineDistance(start, end) * TORTUOSITY_TENTHS * 36, 100 * AVERAGE_SPEED_KMH)

\* Math.round(d * 1.4)
calculateDistance(start, end) ==
    MathRound(haversineDistance(start, end) * TORTUOSITY_TENTHS, 10)

calculateMockRoute(start, end) ==
    [coordinates |-> <<start, end>>,
     distanceMeters |-> calculateDistance(start, end),
     etaSeconds |-> calculateETA(start, end)]

\* GoogleRoutesAdapter.getFallbackRoute: etaSeconds = round(d * 1.3 / (40000 / 3600))
getFallbackRoute(from, to) ==
    [coordinates |-> <<from, to>>,
     etaSeconds |-> MathRound(haversineDistance(from, to) * 13 * 36, 10 * 400)]

\* getPositionAlongPolyline at progress num/den; positions are quantised to whole metres
RECURSIVE polylineDistance(_)
polylineDistance(coordinates) ==
    IF Len(coordinates) < 2 THEN 0
    ELSE haversineDistance(coordinates[1], coordinates[2]) + polylineDistance(Tail(coordinates))

RECURSIVE walkSegments(_, _, _, _, _, _)
walkSegments(coordinates, i, accumulated, total, num, den) ==
    IF i >= Len(coordinates) THEN coordinates[Len(coordinates)]
    ELSE LET segmentLength == haversineDistance(coordinates[i], coordinates[i + 1])
         IN IF (accumulated + segmentLength) * den >= total * num
            THEN IF segmentLength > 0
                 THEN coordinates[i]
                      + ((coordinates[i + 1] - coordinates[i]) * (total * num - accumulated * den))
                        \div (den * segmentLength)
                 ELSE coordinates[i]
            ELSE walkSegments(coordinates, i + 1, accumulated + segmentLength, total, num, den)

\* the result that stands for the thrown Error("Cannot interpolate along empty polyline");
\* positions are never negative
PolylineError == -1

getPositionAlongPolylineUnclamped(coordinates, num, den) ==
    LET totalDistance == polylineDistance(coordinates)
    IN IF Len(coordinates) = 0 THEN PolylineError
       ELSE IF Len(coordinates) = 1 THEN coordinates[1]
       ELSE IF totalDistance = 0 \/ num = 0 THEN coordinates[1]
       ELSE IF num >= den THEN coordinates[Len(coordinates)]
       ELSE walkSegments(coordinates, 1, 0, totalDistance, num, den)

getPositionAlongPolyline(coordinates, num, den) ==
    LET clampedNum == Max(0, Min(den, num))
        totalDistance == polylineDistance(coordinates)
    IN IF Len(coordinates) = 0 THEN PolylineError
       ELSE IF Len(coordinates) = 1 THEN coordinates[1]
       ELSE IF totalDistance = 0 \/ clampedNum = 0 THEN coordinates[1]
       ELSE IF clampedNum >= den THEN coordinates[Len(coordinates)]
       ELSE walkSegments(coordinates, 1, 0, totalDistance, clampedNum, den)

-----------------------------------------------------------------------------
(* The tables the scenario starts from *)

Ambulances == {1, 2, 3}
IncidentIds == {"i1", "i2"}
HospitalIds == {1, 2}

SeedType == <<"BLS", "ALS", "RRV">>
SeedPos == <<0, 65, 90>>
SeedHospitalId == <<1, 1, 2>>

IncidentLat == [i1 |-> 20, i2 |-> 30]
IncidentSeverity == [i1 |-> "HIGH", i2 |-> "LOW"]
IncidentTriage == [i1 |-> "STEMI", i2 |-> "General"]

\* the hospital rows that may exist; rows 3 and 4 are only held by the tables of SpecDestination
HospitalLat == <<10, 50, 30, 70>>
HospitalCapabilities ==
    <<{"General"}, {"pci", "General"}, {"Trauma", "Neuro"}, {"Pediatric", "CT"}>>

\* hospital tables a deployment may hold: none configured, or the seeded two
HospitalSets == {{1, 2}}

\* the POST /api/dispatch requests that may arrive: <<incidentId, requiredType>>
DispatchRequests == {<<"i1", NoType>>, <<"i2", NoType>>, <<"i2", "ALS">>}

\* the POST /incidents/:id/assign requests that may arrive: <<id, ambulanceId>>
AssignRequests == {<<"i2", 1>>}

\* etaSeconds a routing provider may report for a route
ProviderEtas == {4}

\* the hospital tables of SpecSlow
SlowHospitalSets == {{}, {1, 2}}

\* the fleets and queries of SpecSelect
SelectStatuses == <<{"IDLE", "EN_ROUTE"}, {"IDLE", "ON_SCENE"}, {"IDLE", "TRANSPORTING"}>>
SelectPositions == <<{0, 120}, {120}, {124}>>
SelectLats == {20}

\* the paths and progress fractions num/den of SpecPolyline
PolylinePoints == {0, 10, 25}
PolylinePaths ==
    {<<>>} \cup {<<p>> : p \in PolylinePoints}
           \cup {<<p, q>> : p \in PolylinePoints, q \in PolylinePoints}
           \cup {<<p, q, r>> : p \in PolylinePoints, q \in PolylinePoints, r \in PolylinePoints}
ProgressDens == {1, 4}
ProgressNums == -1..5

\* the hazards, hazard tables and routes of SpecHazard
HazardBounds ==
    <<[minLat |-> 0, maxLat |-> 0, minLng |-> 1, maxLng |-> 2],
      [minLat |-> 1, maxLat |-> 2, minLng |-> 0, maxLng |-> 0],
      [minLat |-> 0, maxLat |-> 2, minLng |-> 0, maxLng |-> 2]>>

Hazards ==
    {[id |-> i, active |-> a, bounds |-> HazardBounds[i]] :
        i \in 1..Len(HazardBounds), a \in BOOLEAN}

HazardTables ==
    {<<>>} \cup {<<h>> : h \in Hazards}
           \cup {<<p[1], p[2]>> : p \in {q \in Hazards \X Hazards : q[1].id # q[2].id}}

HazardPoints == {<<0, 0>>, <<2, 0>>, <<0, 2>>, <<3, 3>>}

HazardRoutes ==
    {[coordinates |-> c, etaSeconds |-> 500, distanceMeters |-> 7000] :
        c \in {<<>>} \cup {<<p>> : p \in HazardPoints}
                      \cup {<<p, q>> : p \in HazardPoints, q \in HazardPoints}}

\* the hospital tables of SpecScoring: up to three rows, each with the route the provider
\* answers for it; the hazard over the origin of the map is active
ScoringRoutes ==
    {[coordinates |-> <<p>>, etaSeconds |-> e, distanceMeters |-> 7000] :
        p \in {<<0, 0>>, <<3, 3>>}, e \in {100, 110, 3100}}
ScoringRow(i) ==
    {[id |-> i, capabilities |-> c, route |-> r] :
        c \in {{"PCI", "General"}, {"General"}}, r \in ScoringRoutes}
ScoringTables ==
    {<<>>} \cup {<<a>> : a \in ScoringRow(1)}
           \cup {<<a, b>> : a \in ScoringRow(1), b \in ScoringRow(2)}
           \cup {<<a, b, c>> : a \in ScoringRow(1), b \in ScoringRow(2), c \in ScoringRow(3)}
ScoringTriages == {"STEMI", "General"}
ScoringHazards == <<[id |-> 3, active |-> TRUE, bounds |-> HazardBounds[3]]>>

\* the POST /api/dispatch requests of SpecPair
PairRequests == {<<"i1", NoType>>, <<"i2", NoType>>}

\* the fleets of SpecRoute: every unit free, or only the far unit 3 free (the stored statuses
\* outlive a restart, the lifecycles do not)
RouteFleets == {<<"IDLE", "IDLE", "IDLE">>, <<"ON_SCENE", "TRANSPORTING", "IDLE">>}

\* the hospital tables and queries of SpecDestination; "" is an absent triageType
DestinationHospitalSets == {S \in SUBSET {1, 2, 3, 4} : Cardinality(S) <= 3}
DestinationLats == {20, 45}
Severities == {"HIGH", "LOW"}
TriageTypes == {"", "STEMI", "Stroke", "Trauma", "Burns", "General"}
RequiredTypes == {NoType} \cup AmbulanceTypes

-----------------------------------------------------------------------------
(* DispatchService: candidate selection *)

Row(a) == [id |-> a, type |-> ambType[a], status |-> ambStatus[a],
           currentLat |-> ambPos[a], hospitalId |-> ambHospitalId[a]]

\* all orders in which the rows of S may be returned (findMany without orderBy)
Orderings(S) ==
    {s \in [1..Cardinality(S) -> S] : \A x \in S : \E i \in 1..Cardinality(S) : s[i] = x}

\* variant of findManyIdle: the where clause left out
findManyAnyStatus ==
    {[i \in 1..Len(o) |-> Row(o[i])] : o \in Orderings(Ambulances)}

\* prisma.ambulance.findMany({ where: { status: IDLE } })
findManyIdle ==
    {[i \in 1..Len(o) |-> Row(o[i])] :
        o \in Orderings({a \in Ambulances : ambStatus[a] = "IDLE"})}

\* variant of filterByCapability: every ambulance kept when none is at or above the type
filterOrAll(ambulances, requiredType) ==
    IF requiredType = NoType THEN ambulances
    ELSE LET requiredLevel == TYPE_HIERARCHY[requiredType]
             AtOrAbove(ambulance) == TYPE_HIERARCHY[ambulance.type] >= requiredLevel
             kept == SelectSeq(ambulances, AtOrAbove)
         IN IF Len(kept) = 0 THEN ambulances ELSE kept

\* variant of filterByCapability: > in place of >=
filterAboveType(ambulances, requiredType) ==
    IF requiredType = NoType THEN ambulances
    ELSE LET requiredLevel == TYPE_HIERARCHY[requiredType]
             Above(ambulance) == TYPE_HIERARCHY[ambulance.type] > requiredLevel
         IN SelectSeq(ambulances, Above)

filterByCapability(ambulances, requiredType) ==
    IF requiredType = NoType THEN ambulances
    ELSE LET requiredLevel == TYPE_HIERARCHY[requiredType]
             AtOrAbove(ambulance) == TYPE_HIERARCHY[ambulance.type] >= requiredLevel
         IN SelectSeq(ambulances, AtOrAbove)

candidateOf(ambulance, lat) ==
    LET route == calculateMockRoute(ambulance.currentLat, lat)
    IN [id |-> ambulance.id, type |-> ambulance.type, lat |-> ambulance.currentLat,
        hospitalId |-> ambulance.hospitalId,
        etaSeconds |-> route.etaSeconds, distanceMeters |-> route.distanceMeters]

mapCandidates(validAmbulances, lat) ==
    [i \in 1..Len(validAmbulances) |-> candidateOf(validAmbulances[i], lat)]

\* variant of insertByEta: the comparator b.etaSeconds - a.etaSeconds
insertByEtaDescending(sorted, c) ==
    LET k == Cardinality({i \in 1..Len(sorted) : sorted[i].etaSeconds >= c.etaSeconds})
    IN SubSeq(sorted, 1, k) \o <<c>> \o SubSeq(sorted, k + 1, Len(sorted))

\* Array.prototype.sort((a, b) => a.etaSeconds - b.etaSeconds): a stable sort
insertByEta(sorted, c) ==
    LET k == Cardinality({i \in 1..Len(sorted) : sorted[i].etaSeconds <= c.etaSeconds})
    IN SubSeq(sorted, 1, k) \o <<c>> \o SubSeq(sorted, k + 1, Len(sorted))

RECURSIVE sortByEta(_)
sortByEta(candidates) ==
    IF candidates = <<>> THEN <<>>
    ELSE insertByEta(sortByEta(SubSeq(candidates, 1, Len(candidates) - 1)),
                     candidates[Len(candidates)])

\* variant of rankCandidates: the sort left out
rankUnsorted(idleAmbulances, lat, requiredType) ==
    mapCandidates(filterByCapability(idleAmbulances, requiredType), lat)

\* the ranked list both getCandidates and dispatchToIncident compute from one findMany result
rankCandidates(idleAmbulances, lat, requiredType) ==
    sortByEta(mapCandidates(filterByCapability(idleAmbulances, requiredType), lat))

-----------------------------------------------------------------------------
(* DestinationService *)

AMBULANCE_TYPE_CAPABILITY_MAP ==
    [CCT |-> {"PCI", "TRAUMA", "NEURO", "BURNS"}, ALS |-> {"PCI", "TRAUMA", "STROKE"},
     BLS |-> {}, RRV |-> {}]

TRIAGE_CAPABILITY_MAP ==
    [STEMI |-> {"PCI"}, Stroke |-> {"STROKE", "NEURO", "CT"}, Trauma |-> {"TRAUMA"},
     Burns |-> {"BURNS"}, Pediatric |-> {"PEDIATRIC"}, General |-> {}]

\* String.prototype.toUpperCase on the capability tags in use
toUpperCase(c) ==
    CASE c = "pci" -> "PCI"
      [] c = "Trauma" -> "TRAUMA"
      [] c = "Neuro" -> "NEURO"
      [] c = "Burns" -> "BURNS"
      [] c = "Pediatric" -> "PEDIATRIC"
      [] c = "General" -> "GENERAL"
      [] OTHER -> c

getRequiredCapabilitiesAnySeverity(severity, requiredType, triageType) ==
    (IF triageType \in DOMAIN TRIAGE_CAPABILITY_MAP
     THEN TRIAGE_CAPABILITY_MAP[triageType] ELSE {})
    \cup
    (IF requiredType \in {"ALS", "CCT"} THEN AMBULANCE_TYPE_CAPABILITY_MAP[requiredType] ELSE {})

\* triageType "" stands for undefined
getRequiredCapabilities(severity, requiredType, triageType) ==
    (IF severity = "HIGH" /\ triageType \in DOMAIN TRIAGE_CAPABILITY_MAP
     THEN TRIAGE_CAPABILITY_MAP[triageType] ELSE {})
    \cup
    (IF requiredType \in {"ALS", "CCT"} THEN AMBULANCE_TYPE_CAPABILITY_MAP[requiredType] ELSE {})

hasRequiredCapabilitiesExact(hospitalCapabilities, requiredCapabilities) ==
    IF requiredCapabilities = {} THEN TRUE
    ELSE \E req \in requiredCapabilities : req \in hospitalCapabilities

hasRequiredCapabilities(hospitalCapabilities, requiredCapabilities) ==
    IF requiredCapabilities = {} THEN TRUE
    ELSE LET hospitalCapsUpper == {toUpperCase(c) : c \in hospitalCapabilities}
         IN \E req \in requiredCapabilities : toUpperCase(req) \in hospitalCapsUpper

hospitalResultOf(h, lat) ==
    LET route == calculateMockRoute(lat, HospitalLat[h])
    IN [id |-> h, lat |-> HospitalLat[h],
        distanceMeters |-> route.distanceMeters, etaSeconds |-> route.etaSeconds]

insertByDistanceDescending(sorted, r) ==
    LET k == Cardinality({i \in 1..Len(sorted) : sorted[i].distanceMeters >= r.distanceMeters})
    IN SubSeq(sorted, 1, k) \o <<r>> \o SubSeq(sorted, k + 1, Len(sorted))

\* Array.prototype.sort((a, b) => a.distanceMeters - b.distanceMeters): a stable sort
insertByDistance(sorted, r) ==
    LET k == Cardinality({i \in 1..Len(sorted) : sorted[i].distanceMeters <= r.distanceMeters})
    IN SubSeq(sorted, 1, k) \o <<r>> \o SubSeq(sorted, k + 1, Len(sorted))

RECURSIVE sortByDistance(_)
sortByDistance(results) ==
    IF results = <<>> THEN <<>>
    ELSE insertByDistance(sortByDistance(SubSeq(results, 1, Len(results) - 1)),
                          results[Len(results)])

findBestHospitalNoFallback(rows, lat, severity, requiredType, triageType) ==
    IF Len(rows) = 0 THEN 0
    ELSE LET requiredCapabilities == getRequiredCapabilities(severity, requiredType, triageType)
             Capable(h) == hasRequiredCapabilities(HospitalCapabilities[h], requiredCapabilities)
             validHospitals == IF requiredCapabilities # {} THEN SelectSeq(rows, Capable) ELSE rows
             hospitalResults ==
                 sortByDistance([i \in 1..Len(validHospitals) |->
                                    hospitalResultOf(validHospitals[i], lat)])
         IN IF Len(hospitalResults) = 0 THEN 0 ELSE hospitalResults[1].id

\* findBestHospital on the rows `rows` (hospital ids in the order findMany returned them);
\* the id of the best hospital, 0 for null
findBestHospital(rows, lat, severity, requiredType, triageType) ==
    IF Len(rows) = 0 THEN 0
    ELSE LET requiredCapabilities == getRequiredCapabilities(severity, requiredType, triageType)
             Capable(h) == hasRequiredCapabilities(HospitalCapabilities[h], requiredCapabilities)
             filtered == SelectSeq(rows, Capable)
             validHospitals == IF requiredCapabilities # {} /\ Len(filtered) > 0
                               THEN filtered ELSE rows
             hospitalResults ==
                 sortByDistance([i \in 1..Len(validHospitals) |->
                                    hospitalResultOf(validHospitals[i], lat)])
         IN IF Len(hospitalResults) = 0 THEN 0 ELSE hospitalResults[1].id

-----------------------------------------------------------------------------
(* HazardService; a coordinate is <<lng, lat>> as in GeoJSON *)

isPointInBounds(lat, lng, bounds) ==
    /\ lat >= bounds.minLat
    /\ lat <= bounds.maxLat
    /\ lng >= bounds.minLng
    /\ lng <= bounds.maxLng

routeIntersectsBoundsLatLng(coordinates, bounds) ==
    \E i \in 1..Len(coordinates) :
        isPointInBounds(coordinates[i][1], coordinates[i][2], bounds)

routeIntersectsBounds(coordinates, bounds) ==
    \E i \in 1..Len(coordinates) :
        isPointInBounds(coordinates[i][2], coordinates[i][1], bounds)

\* Database.getActiveHazards on the hazard table `table`, in the order of the map
getActiveHazards(table) == SelectSeq(table, LAMBDA h : h.active)

checkRouteHazards(route, table) ==
    LET activeHazards == getActiveHazards(table)
        intersectingHazards ==
            SelectSeq(activeHazards, LAMBDA h : routeIntersectsBounds(route.coordinates, h.bounds))
    IN [intersectsHazard |-> Len(intersectingHazards) > 0,
        hazards |-> intersectingHazards,
        totalPenalty |-> Len(intersectingHazards) * HAZARD_PENALTY_SECONDS]

applyHazardPenalties(route, table) ==
    LET hazardCheck == checkRouteHazards(route, table)
    IN [coordinates |-> route.coordinates,
        distanceMeters |-> route.distanceMeters,
        etaSeconds |-> route.etaSeconds + hazardCheck.totalPenalty,
        hazardPenalty |-> hazardCheck.totalPenalty,
        intersectingHazards |-> hazardCheck.hazards]

-----------------------------------------------------------------------------
(* HospitalScoringService *)

DEFAULT_LOAD == 50
MAX_ETA == 3600
DEFAULT_LIMIT == 3

\* getRequiredCapabilities of shared/utils: the capabilities mapped to a triage type
capabilitiesOfTriage(triage) ==
    CASE triage = "STEMI" -> {"PCI"}
      [] triage = "Stroke" -> {"CT", "Neuro"}
      [] triage = "Trauma" -> {"Trauma"}
      [] triage = "Burns" -> {"Burns"}
      [] triage = "Pediatric" -> {"Pediatric"}
      [] OTHER -> {"General"}

\* a row of the hospital table as the service sees it; route is what the routing provider
\* answers for this hospital
toApiHospital(h) ==
    [id |-> h.id, capabilities |-> h.capabilities, status |-> "OPEN", load |-> DEFAULT_LOAD,
     route |-> h.route]

\* the score in hundredths: Math.round(score * 100) with
\* score * 100 = 40 * (1 - load/100) + 60 * (1 - min(eta/3600, 1))
\*             = (24 * (100 - load) + 3600 - min(eta, 3600)) / 60
\* etaSeconds 0 stands for Infinity in a result of score 0, which the ranking drops
calculateScore(incidentTriage, hospital, table) ==
    LET requiredCapabilities == capabilitiesOfTriage(incidentTriage)
        hasCapability == requiredCapabilities \cap hospital.capabilities # {}
        routeWithPenalties == applyHazardPenalties(hospital.route, table)
    IN IF ~hasCapability \/ hospital.status # "OPEN"
       THEN [hospital |-> hospital.id, score |-> 0, etaSeconds |-> 0]
       ELSE [hospital |-> hospital.id,
             score |-> MathRound(24 * (100 - hospital.load) + MAX_ETA
                                    - Min(routeWithPenalties.etaSeconds, MAX_ETA), 60),
             etaSeconds |-> routeWithPenalties.etaSeconds]

\* Array.prototype.sort((a, b) => b.score - a.score): a stable sort
insertByScore(sorted, r) ==
    LET k == Cardinality({i \in 1..Len(sorted) : sorted[i].score >= r.score})
    IN SubSeq(sorted, 1, k) \o <<r>> \o SubSeq(sorted, k + 1, Len(sorted))

RECURSIVE sortByScore(_)
sortByScore(scores) ==
    IF scores = <<>> THEN <<>>
    ELSE insertByScore(sortByScore(SubSeq(scores, 1, Len(scores) - 1)), scores[Len(scores)])

rankHospitals(rows, incidentTriage, table, limit) ==
    LET scores == [i \in 1..Len(rows) |-> calculateScore(incidentTriage, toApiHospital(rows[i]), table)]
        validScores == sortByScore(SelectSeq(scores, LAMBDA x : x.score > 0))
    IN SubSeq(validScores, 1, Min(limit, Len(validScores)))

-----------------------------------------------------------------------------
(* Records of the model *)

Task(pc, inc, sim, amb, pos, typ, timer) ==
    [pc |-> pc, inc |-> inc, sim |-> sim, amb |-> amb, pos |-> pos, typ |-> typ, timer |-> timer,
     status |-> ""]

\* a continuation of PATCH /incidents/:id/status: the requested status and the ambulance read
\* from the incident row
StatusTask(pc, inc, sim, amb, status) ==
    [Task(pc, inc, sim, amb, 0, "", 0) EXCEPT !.status = status]

Event(type, amb, inc, status, phase) ==
    [type |-> type, amb |-> amb, inc |-> inc, status |-> status, phase |-> phase]

NoWrite == [sim |-> 0, amb |-> 0, fields |-> {}]

Write(sim, amb, fields) == [sim |-> sim, amb |-> amb, fields |-> fields]

NoObs == [op |-> "none", inc |-> "", req |-> NoType, success |-> FALSE, amb |-> 0, list |-> <<>>]

Obs(op, inc, req, success, amb, list) ==
    [op |-> op, inc |-> inc, req |-> req, success |-> success, amb |-> amb, list |-> list]

\* number of copies in tasks of the records of S
RECURSIVE copiesOf(_)
copiesOf(S) ==
    IF S = {} THEN 0
    ELSE LET x == CHOOSE y \in S : TRUE IN CopiesIn(x, tasks) + copiesOf(S \ {x})

Pending == BagToSet(tasks)

\* tick callbacks of timer k that await their storage write
InFlight(k) == copiesOf({t \in Pending : t.pc = "tickWrite" /\ t.timer = k})

Replace(old, new) == (tasks (-) SetToBag({old})) (+) SetToBag({new})

Remove(old) == tasks (-) SetToBag({old})

\* the stage of the lifecycle an event belongs to
EventRank(e) ==
    CASE e.type = "HOSPITAL_SELECTED" -> 3
      [] e.type = "SIMULATION_COMPLETE" -> 5
      [] e.type = "AMBULANCE_UPDATE" /\ e.status = "EN_ROUTE" -> 1
      [] e.type = "AMBULANCE_UPDATE" /\ e.status = "ON_SCENE" -> 2
      [] e.type = "AMBULANCE_UPDATE" /\ e.status = "TRANSPORTING" -> 4
      [] OTHER -> 5

Bump(n) == IF n < 2 THEN n + 1 ELSE n

NoHist == [rank |-> 0, outOfOrder |-> FALSE, onScene |-> 0, hospitalSelected |-> 0, complete |-> 0]

RECURSIVE histAfter(_, _)
histAfter(h, events) ==
    IF events = <<>> THEN h
    ELSE LET e == Head(events)
             r == EventRank(e)
         IN histAfter([rank |-> Max(h.rank, r),
                       outOfOrder |-> h.outOfOrder \/ r < h.rank,
                       onScene |-> IF r = 2 THEN Bump(h.onScene) ELSE h.onScene,
                       hospitalSelected |-> IF r = 3 THEN Bump(h.hospitalSelected)
                                            ELSE h.hospitalSelected,
                       complete |-> IF e.type = "SIMULATION_COMPLETE" THEN Bump(h.complete)
                                    ELSE h.complete],
                      Tail(events))

-----------------------------------------------------------------------------
(* Initial state: the seeded tables, no simulation, nothing pending *)

Init ==
    /\ ambStatus = [a \in Ambulances |-> "IDLE"]
    /\ ambPos = [a \in Ambulances |-> SeedPos[a]]
    /\ ambHospitalId = [a \in Ambulances |-> SeedHospitalId[a]]
    /\ ambType = [a \in Ambulances |-> SeedType[a]]
    /\ hospitals \in HospitalSets
    /\ incStatus = [i \in IncidentIds |-> "PENDING"]
    /\ incAssigned = [i \in IncidentIds |-> 0]
    /\ activeSimulations = [i \in IncidentIds |-> 0]
    /\ sims = <<>>
    /\ timers = <<>>
    /\ tasks = EmptyBag
    /\ nRequests = 0
    /\ nCancels = 0
    /\ emitted = <<>>
    /\ lastWrite = NoWrite
    /\ obs = NoObs
    /\ hist = <<>>
    /\ cancelReturned = {}
    /\ claimed = {}

-----------------------------------------------------------------------------
(* Steps shared by the actions *)

\* broadcastToDispatchers for the events of one step, by simulation object s (0: a handler)
Emit(s, events) ==
    /\ emitted' = events
    /\ hist' = IF s = 0 THEN hist ELSE [hist EXCEPT ![s] = histAfter(@, events)]

Quiet == emitted' = <<>> /\ hist' = hist /\ lastWrite' = NoWrite

clearIntervalAll(s) ==
    IF sims[s].intervalId # 0
    THEN [k \in 1..Len(timers) |-> [timers[k] EXCEPT !.live = FALSE]]
    ELSE timers

\* clearInterval(simulation.intervalId) when intervalId is set
clearIntervalOf(s) ==
    IF sims[s].intervalId # 0
    THEN [timers EXCEPT ![sims[s].intervalId].live = FALSE]
    ELSE timers

hospitalRows == {[i \in 1..Len(o) |-> o[i]] : o \in Orderings(hospitals)}

-----------------------------------------------------------------------------
(* DispatchService.dispatchToIncident, called by POST /api/dispatch *)

\* up to `await prisma.ambulance.update`: the findMany result, filter, ranking
DispatchRead(inc, req) ==
    /\ nRequests' = nRequests + 1
    /\ \E idleAmbulances \in findManyIdle :
         LET validAmbulances == filterByCapability(idleAmbulances, req)
             candidates == rankCandidates(idleAmbulances, IncidentLat[inc], req)
         IN IF Len(idleAmbulances) = 0 \/ Len(validAmbulances) = 0
            THEN /\ tasks' = tasks
                 /\ obs' = Obs("dispatch", inc, req, FALSE, 0, <<>>)
            ELSE LET bestCandidate == candidates[1]
                 IN /\ tasks' = tasks (+) SetToBag({Task("dispatchWrite", inc, 0,
                                     bestCandidate.id, bestCandidate.lat, bestCandidate.type, 0)})
                    /\ obs' = Obs("dispatchRead", inc, req, TRUE, bestCandidate.id, candidates)
    /\ Quiet
    /\ UNCHANGED <<dbAmbVars, hospitals, incVars, simVars, nCancels, cancelReturned, claimed>>

\* the status write takes effect; startSimulation (setImmediate); return
DispatchWrite(t) ==
    /\ t.pc = "dispatchWrite"
    /\ ambStatus' = [ambStatus EXCEPT ![t.amb] = "EN_ROUTE"]
    /\ lastWrite' = Write(0, t.amb, {"status"})
    /\ tasks' = Replace(t, Task("startLifecycle", t.inc, 0, t.amb, t.pos, t.typ, 0))
    /\ obs' = Obs("dispatch", t.inc, NoType, TRUE, t.amb, <<>>)
    /\ claimed' = claimed \cup {<<t.inc, t.amb>>}
    /\ Emit(0, <<>>)
    /\ UNCHANGED <<ambPos, ambHospitalId, ambType, hospitals, incVars, simVars,
                   nRequests, nCancels, cancelReturned>>

\* DispatchService.getCandidates, called by GET /api/dispatch/candidates
GetCandidates(lat, req) ==
    /\ \E idleAmbulances \in findManyIdle :
         obs' = Obs("getCandidates", "", req, TRUE, 0, rankCandidates(idleAmbulances, lat, req))
    /\ Quiet
    /\ UNCHANGED <<dbAmbVars, hospitals, incVars, simVars, tasks, nRequests, nCancels,
                   cancelReturned, claimed>>

\* DestinationService.findBestHospital called with the arguments of one incident
FindBestHospital(lat, severity, requiredType, triageType) ==
    /\ \E rows \in hospitalRows :
         LET hospital == findBestHospital(rows, lat, severity, requiredType, triageType)
         IN obs' = Obs("findBestHospital", "", requiredType, hospital # 0, hospital,
                       <<[lat |-> lat, severity |-> severity, triageType |-> triageType]>>)
    /\ Quiet
    /\ UNCHANGED <<dbAmbVars, hospitals, incVars, simVars, tasks, nRequests, nCancels,
                   cancelReturned, claimed>>

\* RoutingService.getPositionAlongPolyline on one path at progress num/den
GetPositionAlongPolyline(coordinates, num, den) ==
    /\ obs = NoObs
    /\ LET position == getPositionAlongPolyline(coordinates, num, den)
       IN obs' = Obs("getPositionAlongPolyline", "", NoType, position # PolylineError, 0,
                     <<coordinates, num, den, position>>)
    /\ Quiet
    /\ UNCHANGED <<dbAmbVars, hospitals, incVars, simVars, tasks, nRequests, nCancels,
                   cancelReturned, claimed>>

\* HazardService.applyHazardPenalties on one route, with the hazard table of that moment
ApplyHazardPenalties(route, table) ==
    /\ obs = NoObs
    /\ obs' = Obs("applyHazardPenalties", "", NoType, TRUE, 0,
                  <<route, table, applyHazardPenalties(route, table)>>)
    /\ Quiet
    /\ UNCHANGED <<dbAmbVars, hospitals, incVars, simVars, tasks, nRequests, nCancels,
                   cancelReturned, claimed>>

\* HospitalScoringService.rankHospitals on one hospital table
RankHospitals(rows, incidentTriage) ==
    /\ obs = NoObs
    /\ obs' = Obs("rankHospitals", "", NoType, TRUE, 0,
                  <<rows, incidentTriage,
                    rankHospitals(rows, incidentTriage, ScoringHazards, DEFAULT_LIMIT)>>)
    /\ Quiet
    /\ UNCHANGED <<dbAmbVars, hospitals, incVars, simVars, tasks, nRequests, nCancels,
                   cancelReturned, claimed>>

-----------------------------------------------------------------------------
(* POST /incidents/:id/assign *)

\* both findUnique reads and the availability test
AssignRead(inc, amb) ==
    /\ nRequests' = nRequests + 1
    /\ IF ambStatus[amb] # "IDLE"
       THEN /\ tasks' = tasks
            /\ obs' = Obs("assign", inc, NoType, FALSE, amb, <<>>)
       ELSE /\ tasks' = tasks (+) SetToBag({Task("assignIncident", inc, 0, amb,
                                                 ambPos[amb], ambType[amb], 0)})
            /\ obs' = Obs("assignRead", inc, NoType, TRUE, amb, <<>>)
    /\ Quiet
    /\ UNCHANGED <<dbAmbVars, hospitals, incVars, simVars, nCancels, cancelReturned, claimed>>

\* prisma.incident.update takes effect
AssignIncidentWrite(t) ==
    /\ t.pc = "assignIncident"
    /\ incStatus' = [incStatus EXCEPT ![t.inc] = "DISPATCHED"]
    /\ incAssigned' = [incAssigned EXCEPT ![t.inc] = t.amb]
    /\ tasks' = Replace(t, [t EXCEPT !.pc = "assignAmbulance"])
    /\ obs' = NoObs
    /\ Quiet
    /\ UNCHANGED <<dbAmbVars, hospitals, simVars, nRequests, nCancels, cancelReturned, claimed>>

\* prisma.ambulance.update takes effect; INCIDENT_UPDATE; setImmediate; reply
AssignAmbulanceWrite(t) ==
    /\ t.pc = "assignAmbulance"
    /\ ambStatus' = [ambStatus EXCEPT ![t.amb] = "EN_ROUTE"]
    /\ lastWrite' = Write(0, t.amb, {"status"})
    /\ tasks' = Replace(t, [t EXCEPT !.pc = "startLifecycle"])
    /\ obs' = Obs("assign", t.inc, NoType, TRUE, t.amb, <<>>)
    /\ claimed' = claimed \cup {<<t.inc, t.amb>>}
    /\ Emit(0, <<Event("INCIDENT_UPDATE", t.amb, t.inc, "DISPATCHED", "")>>)
    /\ UNCHANGED <<ambPos, ambHospitalId, ambType, hospitals, incVars, simVars,
                   nRequests, nCancels, cancelReturned>>

-----------------------------------------------------------------------------
(* PATCH /incidents/:id/status *)

\* the body is valid and findUnique found the incident
PatchStatusRead(inc, status) ==
    /\ nRequests' = nRequests + 1
    /\ tasks' = tasks (+) SetToBag({StatusTask("patchIncident", inc, 0, incAssigned[inc], status)})
    /\ obs' = NoObs
    /\ Quiet
    /\ UNCHANGED <<dbAmbVars, hospitals, incVars, simVars, nCancels, cancelReturned, claimed>>

\* prisma.incident.update takes effect; for COMPLETED or CANCELLED with an assigned ambulance
\* up to the await of the ambulance update, else INCIDENT_UPDATE and the reply
PatchIncidentWrite(t) ==
    /\ t.pc = "patchIncident"
    /\ incStatus' = [incStatus EXCEPT ![t.inc] = t.status]
    /\ incAssigned' = incAssigned
    /\ IF t.status \in {"COMPLETED", "CANCELLED"} /\ t.amb # 0
       THEN /\ tasks' = Replace(t, [t EXCEPT !.pc = "patchAmbulance"])
            /\ obs' = NoObs
            /\ Emit(0, <<>>)
       ELSE /\ tasks' = Remove(t)
            /\ obs' = Obs("patchStatus", t.inc, NoType, TRUE, t.amb, <<>>)
            /\ Emit(0, <<Event("INCIDENT_UPDATE", t.amb, t.inc, t.status, "")>>)
    /\ lastWrite' = NoWrite
    /\ UNCHANGED <<dbAmbVars, hospitals, simVars, nRequests, nCancels, cancelReturned, claimed>>

\* prisma.ambulance.update takes effect; cancelSimulation up to its await, or its false
\* result, INCIDENT_UPDATE and the reply
PatchAmbulanceWrite(t) ==
    /\ t.pc = "patchAmbulance"
    /\ ambStatus' = [ambStatus EXCEPT ![t.amb] = "IDLE"]
    /\ lastWrite' = Write(0, t.amb, {"status"})
    /\ LET s == activeSimulations[t.inc]
       IN IF s = 0
          THEN /\ timers' = timers
               /\ tasks' = Remove(t)
               /\ obs' = Obs("patchStatus", t.inc, NoType, TRUE, t.amb, <<>>)
               /\ Emit(0, <<Event("INCIDENT_UPDATE", t.amb, t.inc, t.status, "")>>)
          ELSE /\ timers' = clearIntervalOf(s)
               /\ tasks' = Replace(t, StatusTask("patchCancel", t.inc, s, sims[s].amb, t.status))
               /\ obs' = NoObs
               /\ Emit(0, <<>>)
    /\ UNCHANGED <<ambPos, ambHospitalId, ambType, hospitals, incVars, activeSimulations, sims,
                   nRequests, nCancels, cancelReturned, claimed>>

\* cancelSimulation after its await, then INCIDENT_UPDATE and the reply
PatchCancelWrite(t) ==
    /\ t.pc = "patchCancel"
    /\ ambStatus' = [ambStatus EXCEPT ![t.amb] = "IDLE"]
    /\ lastWrite' = Write(0, t.amb, {"status"})
    /\ activeSimulations' = [activeSimulations EXCEPT ![t.inc] = 0]
    /\ Emit(0, <<Event("SIMULATION_CANCELLED", t.amb, t.inc, "", ""),
                 Event("INCIDENT_UPDATE", t.amb, t.inc, t.status, "")>>)
    /\ cancelReturned' = cancelReturned \cup {t.sim}
    /\ tasks' = Remove(t)
    /\ obs' = Obs("patchStatus", t.inc, NoType, TRUE, t.amb, <<>>)
    /\ UNCHANGED <<ambPos, ambHospitalId, ambType, hospitals, incVars, sims, timers,
                   nRequests, nCancels, claimed>>

-----------------------------------------------------------------------------
(* SimulationService *)

NewSimulation(t) ==
    [inc |-> t.inc, amb |-> t.amb, ambulanceLocation |-> t.pos,
     incidentLocation |-> IncidentLat[t.inc], severity |-> IncidentSeverity[t.inc],
     ambulanceType |-> t.typ, triageType |-> IncidentTriage[t.inc],
     phase |-> "OUTBOUND", progress |-> <<0, 1>>, intervalId |-> 0, hospitalId |-> 0,
     routeCoordinates |-> <<>>, phaseEtaSeconds |-> 0]

\* the setImmediate callback: startLifecycle up to the await of getRoute in startOutboundPhase
StartLifecycle(t) ==
    /\ t.pc = "startLifecycle"
    /\ IF activeSimulations[t.inc] # 0
       THEN /\ tasks' = Remove(t)
            /\ obs' = Obs("startLifecycle", t.inc, NoType, FALSE, t.amb, <<>>)
            /\ UNCHANGED <<simVars, hist>>
       ELSE /\ sims' = Append(sims, NewSimulation(t))
            /\ hist' = Append(hist, NoHist)
            /\ activeSimulations' = [activeSimulations EXCEPT ![t.inc] = Len(sims) + 1]
            /\ tasks' = Replace(t, Task("outboundRoute", t.inc, Len(sims) + 1, t.amb, 0, t.typ, 0))
            /\ obs' = Obs("startLifecycle", t.inc, NoType, TRUE, t.amb, <<>>)
            /\ UNCHANGED timers
    /\ emitted' = <<>>
    /\ lastWrite' = NoWrite
    /\ UNCHANGED <<dbAmbVars, hospitals, incVars, nRequests, nCancels, cancelReturned, claimed>>

RouteOutcomesNoDestination(from, to) ==
    {[ok |-> TRUE, coordinates |-> <<from, to>>, etaSeconds |-> e] : e \in ProviderEtas}
    \cup {[ok |-> FALSE, coordinates |-> <<from>>, etaSeconds |-> 0]}

\* what the await of getRoute in a phase start may yield: the provider's route; the adapter's
\* own fallback when the request fails or holds no route; or, when the call throws, the
\* straight line and calculateETA of the catch block
RouteOutcomes(from, to) ==
    {[ok |-> TRUE, coordinates |-> <<from, to>>, etaSeconds |-> e] : e \in ProviderEtas}
    \cup {[ok |-> FALSE, coordinates |-> getFallbackRoute(from, to).coordinates,
           etaSeconds |-> getFallbackRoute(from, to).etaSeconds],
          [ok |-> FALSE, coordinates |-> <<from, to>>, etaSeconds |-> calculateETA(from, to)]}

\* getRoute resolved or threw (straight-line fallback); up to the await of the status write
OutboundRoute(t) ==
    /\ t.pc = "outboundRoute"
    /\ LET s == t.sim
       IN \E route \in RouteOutcomes(sims[s].ambulanceLocation, sims[s].incidentLocation) :
              /\ sims' = [sims EXCEPT
                    ![s].routeCoordinates = route.coordinates,
                    ![s].phaseEtaSeconds = Max(route.etaSeconds, MIN_PHASE_DURATION_SECONDS)]
              /\ obs' = Obs("getRoute", t.inc, NoType, route.ok, t.amb, <<>>)
    /\ tasks' = Replace(t, [t EXCEPT !.pc = "outboundStatus"])
    /\ Quiet
    /\ UNCHANGED <<dbAmbVars, hospitals, incVars, activeSimulations, timers,
                   nRequests, nCancels, cancelReturned, claimed>>

totalStepsOf(phaseEtaSeconds) ==
    MathCeil(phaseEtaSeconds * 1000, SIMULATION_SPEED_MULTIPLIER * UPDATE_INTERVAL)

NewTimer(s, kind) ==
    [sim |-> s, kind |-> kind, currentStep |-> 0,
     totalSteps |-> totalStepsOf(sims[s].phaseEtaSeconds), live |-> TRUE]

\* EN_ROUTE written; initial broadcast; setInterval
OutboundStatus(t) ==
    /\ t.pc = "outboundStatus"
    /\ LET s == t.sim
           amb == sims[s].amb
       IN /\ ambStatus' = [ambStatus EXCEPT ![amb] = "EN_ROUTE"]
          /\ lastWrite' = Write(s, amb, {"status"})
          /\ Emit(s, <<Event("AMBULANCE_UPDATE", amb, sims[s].inc, "EN_ROUTE", sims[s].phase)>>)
          /\ timers' = Append(timers, NewTimer(s, "OUTBOUND"))
          /\ sims' = [sims EXCEPT ![s].intervalId = Len(timers) + 1]
    /\ tasks' = Remove(t)
    /\ obs' = NoObs
    /\ UNCHANGED <<ambPos, ambHospitalId, ambType, hospitals, incVars, activeSimulations,
                   nRequests, nCancels, cancelReturned, claimed>>

\* the setInterval callback of timer k, up to the await of the position write
TickFire(k) ==
    /\ k \in 1..Len(timers)
    /\ timers[k].live
    /\ LET s == timers[k].sim
           currentStep == timers[k].currentStep + 1
           num == Min(currentStep, timers[k].totalSteps)
           currentPosition ==
               getPositionAlongPolyline(sims[s].routeCoordinates, num, timers[k].totalSteps)
       IN /\ timers' = [timers EXCEPT ![k].currentStep = currentStep]
          /\ sims' = [sims EXCEPT ![s].progress = <<num, timers[k].totalSteps>>]
          /\ tasks' = tasks (+) SetToBag({Task("tickWrite", sims[s].inc, s, sims[s].amb,
                                               currentPosition, "", k)})
    /\ obs' = NoObs
    /\ Quiet
    /\ UNCHANGED <<dbAmbVars, hospitals, incVars, activeSimulations,
                   nRequests, nCancels, cancelReturned, claimed>>

\* the position write of a tick takes effect; broadcast; phase-complete test; on completion
\* startOnScenePhase or completeSimulation up to its await
TickWrite(t) ==
    /\ t.pc = "tickWrite"
    /\ LET s == t.sim
           k == t.timer
           amb == sims[s].amb
           status == IF timers[k].kind = "OUTBOUND" THEN "EN_ROUTE" ELSE "TRANSPORTING"
       IN /\ ambPos' = [ambPos EXCEPT ![amb] = t.pos]
          /\ lastWrite' = Write(s, amb, {"position"})
          /\ Emit(s, <<Event("AMBULANCE_UPDATE", amb, sims[s].inc, status, sims[s].phase)>>)
          /\ IF timers[k].currentStep >= timers[k].totalSteps
             THEN /\ timers' = clearIntervalOf(s)
                  /\ IF timers[k].kind = "OUTBOUND"
                     THEN /\ sims' = [sims EXCEPT ![s].intervalId = 0,
                                                  ![s].phase = "ON_SCENE",
                                                  ![s].progress = <<0, 1>>]
                          /\ tasks' = Replace(t, Task("onSceneStatus", t.inc, s, amb, 0, "", 0))
                     ELSE /\ sims' = [sims EXCEPT ![s].intervalId = 0,
                                                  ![s].phase = "COMPLETE"]
                          /\ tasks' = Replace(t, Task("completeWrite", t.inc, s, amb, 0, "", 0))
             ELSE /\ tasks' = Remove(t)
                  /\ UNCHANGED <<sims, timers>>
    /\ obs' = NoObs
    /\ UNCHANGED <<ambStatus, ambHospitalId, ambType, hospitals, incVars, activeSimulations,
                   nRequests, nCancels, cancelReturned, claimed>>

\* ON_SCENE written; broadcast; setTimeout(ON_SCENE_DURATION)
OnSceneStatus(t) ==
    /\ t.pc = "onSceneStatus"
    /\ LET s == t.sim
           amb == sims[s].amb
       IN /\ ambStatus' = [ambStatus EXCEPT ![amb] = "ON_SCENE"]
          /\ lastWrite' = Write(s, amb, {"status"})
          /\ Emit(s, <<Event("AMBULANCE_UPDATE", amb, sims[s].inc, "ON_SCENE", sims[s].phase)>>)
    /\ tasks' = Replace(t, [t EXCEPT !.pc = "dwell"])
    /\ obs' = NoObs
    /\ UNCHANGED <<ambPos, ambHospitalId, ambType, hospitals, incVars, simVars,
                   nRequests, nCancels, cancelReturned, claimed>>

\* the setTimeout callback: startDecisionPhase up to the await of findBestHospital
Dwell(t) ==
    /\ t.pc = "dwell"
    /\ sims' = [sims EXCEPT ![t.sim].phase = "DECISION"]
    /\ tasks' = Replace(t, [t EXCEPT !.pc = "decision"])
    /\ obs' = NoObs
    /\ Quiet
    /\ UNCHANGED <<dbAmbVars, hospitals, incVars, activeSimulations, timers,
                   nRequests, nCancels, cancelReturned, claimed>>

\* findBestHospital resolved: endSimulation up to its await, or HOSPITAL_SELECTED and
\* startInboundPhase up to the await of getRoute
Decision(t) ==
    /\ t.pc = "decision"
    /\ LET s == t.sim
           amb == sims[s].amb
       IN \E rows \in hospitalRows :
            LET hospital == findBestHospital(rows, sims[s].incidentLocation, sims[s].severity,
                                             sims[s].ambulanceType, sims[s].triageType)
            IN IF hospital = 0
               THEN /\ timers' = clearIntervalOf(s)
                    /\ sims' = sims
                    /\ tasks' = Replace(t, Task("endWrite", t.inc, s, amb,
                                                sims[s].incidentLocation, "", 0))
                    /\ Emit(s, <<>>)
                    /\ obs' = Obs("findBestHospital", t.inc, NoType, FALSE, 0, <<>>)
               ELSE /\ timers' = timers
                    /\ sims' = [sims EXCEPT ![s].hospitalId = hospital,
                                            ![s].phase = "INBOUND",
                                            ![s].progress = <<0, 1>>]
                    /\ tasks' = Replace(t, Task("inboundRoute", t.inc, s, amb, 0, "", 0))
                    /\ Emit(s, <<Event("HOSPITAL_SELECTED", amb, sims[s].inc, "", "")>>)
                    /\ obs' = Obs("findBestHospital", t.inc, NoType, TRUE, hospital, <<>>)
    /\ lastWrite' = NoWrite
    /\ UNCHANGED <<dbAmbVars, hospitals, incVars, activeSimulations,
                   nRequests, nCancels, cancelReturned, claimed>>

\* getRoute resolved or threw (straight-line fallback); up to the await of the status write
InboundRoute(t) ==
    /\ t.pc = "inboundRoute"
    /\ LET s == t.sim
           destination == HospitalLat[sims[s].hospitalId]
       IN \E route \in RouteOutcomes(sims[s].incidentLocation, destination) :
              /\ sims' = [sims EXCEPT
                    ![s].routeCoordinates = route.coordinates,
                    ![s].phaseEtaSeconds = Max(route.etaSeconds, MIN_PHASE_DURATION_SECONDS)]
              /\ obs' = Obs("getRoute", t.inc, NoType, route.ok, t.amb, <<>>)
    /\ tasks' = Replace(t, [t EXCEPT !.pc = "inboundStatus"])
    /\ Quiet
    /\ UNCHANGED <<dbAmbVars, hospitals, incVars, activeSimulations, timers,
                   nRequests, nCancels, cancelReturned, claimed>>

\* TRANSPORTING written; broadcast; setInterval
InboundStatus(t) ==
    /\ t.pc = "inboundStatus"
    /\ LET s == t.sim
           amb == sims[s].amb
       IN /\ ambStatus' = [ambStatus EXCEPT ![amb] = "TRANSPORTING"]
          /\ lastWrite' = Write(s, amb, {"status"})
          /\ Emit(s, <<Event("AMBULANCE_UPDATE", amb, sims[s].inc, "TRANSPORTING", sims[s].phase)>>)
          /\ timers' = Append(timers, NewTimer(s, "INBOUND"))
          /\ sims' = [sims EXCEPT ![s].intervalId = Len(timers) + 1]
    /\ tasks' = Remove(t)
    /\ obs' = NoObs
    /\ UNCHANGED <<ambPos, ambHospitalId, ambType, hospitals, incVars, activeSimulations,
                   nRequests, nCancels, cancelReturned, claimed>>

CompleteWriteAtIncident(t) ==
    /\ t.pc = "completeWrite"
    /\ LET s == t.sim
           amb == sims[s].amb
       IN /\ ambStatus' = [ambStatus EXCEPT ![amb] = "IDLE"]
          /\ ambPos' = [ambPos EXCEPT ![amb] = sims[s].incidentLocation]
          /\ ambHospitalId' = ambHospitalId
          /\ lastWrite' = Write(s, amb, {"status", "position", "hospital"})
          /\ Emit(s, <<Event("AMBULANCE_UPDATE", amb, sims[s].inc, "IDLE", "COMPLETE"),
                       Event("SIMULATION_COMPLETE", amb, sims[s].inc, "", "")>>)
          /\ activeSimulations' = [activeSimulations EXCEPT ![sims[s].inc] = 0]
    /\ tasks' = Remove(t)
    /\ obs' = NoObs
    /\ UNCHANGED <<ambType, hospitals, incVars, sims, timers, nRequests, nCancels, cancelReturned, claimed>>

\* completeSimulation after its await: the parking write, both broadcasts, delete
CompleteWrite(t) ==
    /\ t.pc = "completeWrite"
    /\ LET s == t.sim
           amb == sims[s].amb
           h == sims[s].hospitalId
       IN /\ ambStatus' = [ambStatus EXCEPT ![amb] = "IDLE"]
          /\ ambPos' = [ambPos EXCEPT ![amb] =
                           IF h # 0 THEN HospitalLat[h] ELSE sims[s].incidentLocation]
          /\ ambHospitalId' = IF h # 0 THEN [ambHospitalId EXCEPT ![amb] = h] ELSE ambHospitalId
          /\ lastWrite' = Write(s, amb, {"status", "position", "hospital"})
          /\ Emit(s, <<Event("AMBULANCE_UPDATE", amb, sims[s].inc, "IDLE", "COMPLETE"),
                       Event("SIMULATION_COMPLETE", amb, sims[s].inc, "", "")>>)
          /\ activeSimulations' = [activeSimulations EXCEPT ![sims[s].inc] = 0]
    /\ tasks' = Remove(t)
    /\ obs' = NoObs
    /\ UNCHANGED <<ambType, hospitals, incVars, sims, timers, nRequests, nCancels, cancelReturned, claimed>>

EndWriteNoReset(t) ==
    /\ t.pc = "endWrite"
    /\ LET s == t.sim
           amb == sims[s].amb
       IN /\ ambStatus' = ambStatus
          /\ ambPos' = [ambPos EXCEPT ![amb] = t.pos]
          /\ lastWrite' = Write(s, amb, {"status", "position"})
          /\ Emit(s, <<Event("AMBULANCE_UPDATE", amb, sims[s].inc, "IDLE", "COMPLETE")>>)
          /\ activeSimulations' = [activeSimulations EXCEPT ![sims[s].inc] = 0]
    /\ tasks' = Remove(t)
    /\ obs' = NoObs
    /\ UNCHANGED <<ambHospitalId, ambType, hospitals, incVars, sims, timers,
                   nRequests, nCancels, cancelReturned, claimed>>

\* endSimulation after its await: the reset write, broadcast, delete
EndWrite(t) ==
    /\ t.pc = "endWrite"
    /\ LET s == t.sim
           amb == sims[s].amb
       IN /\ ambStatus' = [ambStatus EXCEPT ![amb] = "IDLE"]
          /\ ambPos' = [ambPos EXCEPT ![amb] = t.pos]
          /\ lastWrite' = Write(s, amb, {"status", "position"})
          /\ Emit(s, <<Event("AMBULANCE_UPDATE", amb, sims[s].inc, "IDLE", "COMPLETE")>>)
          /\ activeSimulations' = [activeSimulations EXCEPT ![sims[s].inc] = 0]
    /\ tasks' = Remove(t)
    /\ obs' = NoObs
    /\ UNCHANGED <<ambHospitalId, ambType, hospitals, incVars, sims, timers,
                   nRequests, nCancels, cancelReturned, claimed>>

CancelCallAlwaysTrue(inc) ==
    /\ nCancels' = nCancels + 1
    /\ LET s == activeSimulations[inc]
       IN IF s = 0
          THEN /\ obs' = Obs("cancel", inc, NoType, TRUE, 0, <<>>)
               /\ UNCHANGED <<timers, tasks>>
          ELSE /\ timers' = clearIntervalOf(s)
               /\ tasks' = tasks (+) SetToBag({Task("cancelWrite", inc, s, sims[s].amb, 0, "", 0)})
               /\ obs' = NoObs
    /\ Quiet
    /\ UNCHANGED <<dbAmbVars, hospitals, incVars, activeSimulations, sims,
                   nRequests, cancelReturned, claimed>>

\* cancelSimulation up to its await, called by DELETE /api/dispatch/simulations/:incidentId
CancelCall(inc) ==
    /\ nCancels' = nCancels + 1
    /\ LET s == activeSimulations[inc]
       IN IF s = 0
          THEN /\ obs' = Obs("cancel", inc, NoType, FALSE, 0, <<>>)
               /\ UNCHANGED <<timers, tasks>>
          ELSE /\ timers' = clearIntervalOf(s)
               /\ tasks' = tasks (+) SetToBag({Task("cancelWrite", inc, s, sims[s].amb, 0, "", 0)})
               /\ obs' = NoObs
    /\ Quiet
    /\ UNCHANGED <<dbAmbVars, hospitals, incVars, activeSimulations, sims,
                   nRequests, cancelReturned, claimed>>

CancelWriteNoDelete(t) ==
    /\ t.pc = "cancelWrite"
    /\ ambStatus' = [ambStatus EXCEPT ![t.amb] = "IDLE"]
    /\ lastWrite' = Write(0, t.amb, {"status"})
    /\ activeSimulations' = activeSimulations
    /\ Emit(0, <<Event("SIMULATION_CANCELLED", t.amb, t.inc, "", "")>>)
    /\ cancelReturned' = cancelReturned \cup {t.sim}
    /\ claimed' = claimed
    /\ tasks' = Remove(t)
    /\ obs' = Obs("cancel", t.inc, NoType, TRUE, t.amb, <<>>)
    /\ UNCHANGED <<ambPos, ambHospitalId, ambType, hospitals, incVars, sims, timers,
                   nRequests, nCancels>>

\* cancelSimulation after its await: the reset write, delete, SIMULATION_CANCELLED, return true
CancelWrite(t) ==
    /\ t.pc = "cancelWrite"
    /\ ambStatus' = [ambStatus EXCEPT ![t.amb] = "IDLE"]
    /\ lastWrite' = Write(0, t.amb, {"status"})
    /\ activeSimulations' = [activeSimulations EXCEPT ![t.inc] = 0]
    /\ Emit(0, <<Event("SIMULATION_CANCELLED", t.amb, t.inc, "", "")>>)
    /\ cancelReturned' = cancelReturned \cup {t.sim}
    /\ claimed' = claimed
    /\ tasks' = Remove(t)
    /\ obs' = Obs("cancel", t.inc, NoType, TRUE, t.amb, <<>>)
    /\ UNCHANGED <<ambPos, ambHospitalId, ambType, hospitals, incVars, sims, timers,
                   nRequests, nCancels>>

-----------------------------------------------------------------------------
(* The steps of pending continuations *)

\* the continuations of one lifecycle, from the setImmediate callback to completeSimulation
Lifecycle(t) ==
    \/ StartLifecycle(t)
    \/ OutboundRoute(t)
    \/ OutboundStatus(t)
    \/ TickWrite(t)
    \/ OnSceneStatus(t)
    \/ Dwell(t)
    \/ Decision(t)
    \/ InboundRoute(t)
    \/ InboundStatus(t)
    \/ CompleteWrite(t)

-----------------------------------------------------------------------------
(* Spec: concurrent requests and cancellations.  Requests arrive in any    *)
(* order, continuations and timers run in any order.  A tick's write is    *)
(* answered within UPDATE_INTERVAL, so a timer does not fire while a tick  *)
(* of it is still pending.                                                 *)

Next ==
    \/ \E r \in DispatchRequests : nRequests < MaxRequests /\ DispatchRead(r[1], r[2])
    \/ \E r \in AssignRequests : nRequests < MaxRequests /\ AssignRead(r[1], r[2])
    \/ \E inc \in IncidentIds : nCancels < MaxCancels /\ CancelCall(inc)
    \/ \E k \in 1..Len(timers) : InFlight(k) = 0 /\ TickFire(k)
    \/ \E t \in Pending :
         \/ DispatchWrite(t)
         \/ AssignIncidentWrite(t)
         \/ AssignAmbulanceWrite(t)
         \/ Lifecycle(t)
         \/ CancelWrite(t)

Spec == Init /\ [][Next]_vars

-----------------------------------------------------------------------------
(* SpecSlow: one dispatch whose lifecycle runs on slow storage: a timer    *)
(* fires again while up to MaxInFlight ticks of it await their write.  The *)
(* hospital table is seeded or empty.                                      *)

InitSlow ==
    /\ ambStatus = [a \in Ambulances |-> "IDLE"]
    /\ ambPos = [a \in Ambulances |-> SeedPos[a]]
    /\ ambHospitalId = [a \in Ambulances |-> SeedHospitalId[a]]
    /\ ambType = [a \in Ambulances |-> SeedType[a]]
    /\ hospitals \in SlowHospitalSets
    /\ incStatus = [i \in IncidentIds |-> "PENDING"]
    /\ incAssigned = [i \in IncidentIds |-> 0]
    /\ activeSimulations = [i \in IncidentIds |-> 0]
    /\ sims = <<>>
    /\ timers = <<>>
    /\ tasks = EmptyBag
    /\ nRequests = 0
    /\ nCancels = 0
    /\ emitted = <<>>
    /\ lastWrite = NoWrite
    /\ obs = NoObs
    /\ hist = <<>>
    /\ cancelReturned = {}
    /\ claimed = {}

NextSlow ==
    \/ nRequests < MaxSlowRequests /\ DispatchRead("i1", NoType)
    \/ \E k \in 1..Len(timers) :
         /\ InFlight(k) < MaxInFlight
         /\ timers[k].currentStep < timers[k].totalSteps + MaxOverrun
         /\ TickFire(k)
    \/ \E t \in Pending :
         /\ t.pc \in {"outboundStatus", "inboundStatus"} => Len(timers) < MaxTimers
         /\ \/ DispatchWrite(t)
            \/ Lifecycle(t)
            \/ EndWrite(t)

SpecSlow == InitSlow /\ [][NextSlow]_vars

-----------------------------------------------------------------------------
(* SpecReuse: one incident dispatched again and again for the one ALS      *)
(* ambulance of the fleet, with a cancellation                             *)

NextReuse ==
    \/ nRequests < MaxReuse /\ DispatchRead("i1", "ALS")
    \/ nCancels < MaxCancels /\ CancelCall("i1")
    \/ \E k \in 1..Len(timers) : InFlight(k) = 0 /\ TickFire(k)
    \/ \E t \in Pending :
         \/ DispatchWrite(t)
         \/ Lifecycle(t)
         \/ CancelWrite(t)

SpecReuse == Init /\ [][NextReuse]_vars

-----------------------------------------------------------------------------
(* SpecSelect: candidate selection on every fleet of the bounded sets; the *)
(* lifecycles are left out, a claimed ambulance stays EN_ROUTE.            *)

InitSelect ==
    /\ ambStatus \in {f \in [Ambulances -> AmbulanceStatuses] :
                        \A a \in Ambulances : f[a] \in SelectStatuses[a]}
    /\ ambPos \in {f \in [Ambulances -> {0, 120, 124}] :
                     \A a \in Ambulances : f[a] \in SelectPositions[a]}
    /\ ambHospitalId = [a \in Ambulances |-> SeedHospitalId[a]]
    /\ ambType \in [Ambulances -> AmbulanceTypes]
    /\ hospitals \in HospitalSets
    /\ incStatus = [i \in IncidentIds |-> "PENDING"]
    /\ incAssigned = [i \in IncidentIds |-> 0]
    /\ activeSimulations = [i \in IncidentIds |-> 0]
    /\ sims = <<>>
    /\ timers = <<>>
    /\ tasks = EmptyBag
    /\ nRequests = 0
    /\ nCancels = 0
    /\ emitted = <<>>
    /\ lastWrite = NoWrite
    /\ obs = NoObs
    /\ hist = <<>>
    /\ cancelReturned = {}
    /\ claimed = {}

NextSelect ==
    \/ \E lat \in SelectLats, req \in RequiredTypes : GetCandidates(lat, req)
    \/ \E req \in RequiredTypes : nRequests < MaxSelectRequests /\ DispatchRead("i1", req)
    \/ \E t \in Pending : DispatchWrite(t)

SpecSelect == InitSelect /\ [][NextSelect]_vars

-----------------------------------------------------------------------------
(* SpecLifecycle: the lifecycle of one dispatched incident from dispatch to *)
(* its end, with or without hospitals, and cancellations of either incident *)
(* id at any moment.                                                        *)

NextLifecycle ==
    \/ nRequests < MaxLifecycleRequests /\ DispatchRead("i1", NoType)
    \/ \E i \in IncidentIds : nCancels < MaxCancels /\ CancelCall(i)
    \/ \E k \in 1..Len(timers) : InFlight(k) = 0 /\ TickFire(k)
    \/ \E t \in Pending :
         \/ DispatchWrite(t)
         \/ Lifecycle(t)
         \/ EndWrite(t)
         \/ CancelWrite(t)

SpecLifecycle == InitSlow /\ [][NextLifecycle]_vars

-----------------------------------------------------------------------------
(* SpecFair: SpecLifecycle under fair scheduling: a live timer goes on      *)
(* firing, and every awaited call is answered, so every pending             *)
(* continuation runs.                                                       *)

TimerStep == \E k \in 1..Len(timers) : InFlight(k) = 0 /\ TickFire(k)

ContinuationStep ==
    \E t \in Pending : DispatchWrite(t) \/ Lifecycle(t) \/ EndWrite(t) \/ CancelWrite(t)

SpecFair == SpecLifecycle /\ WF_vars(TimerStep) /\ WF_vars(ContinuationStep)

-----------------------------------------------------------------------------
(* SpecIncident: one incident assigned by hand and its status patched while *)
(* its lifecycle runs.                                                      *)

NextIncident ==
    \/ \E r \in AssignRequests : nRequests < MaxIncidentRequests /\ AssignRead(r[1], r[2])
    \/ \E status \in IncidentStatuses :
         nRequests < MaxIncidentRequests /\ PatchStatusRead("i2", status)
    \/ \E k \in 1..Len(timers) : InFlight(k) = 0 /\ TickFire(k)
    \/ \E t \in Pending :
         \/ AssignIncidentWrite(t)
         \/ AssignAmbulanceWrite(t)
         \/ Lifecycle(t)
         \/ PatchIncidentWrite(t)
         \/ PatchAmbulanceWrite(t)
         \/ PatchCancelWrite(t)

SpecIncident == Init /\ [][NextIncident]_vars

-----------------------------------------------------------------------------
(* SpecRoute: one dispatch served by the nearest or by the farthest unit,   *)
(* every outcome of both route requests, ticks answered before the next.    *)

InitRoute ==
    /\ ambStatus \in {[a \in Ambulances |-> f[a]] : f \in RouteFleets}
    /\ ambPos = [a \in Ambulances |-> SeedPos[a]]
    /\ ambHospitalId = [a \in Ambulances |-> SeedHospitalId[a]]
    /\ ambType = [a \in Ambulances |-> SeedType[a]]
    /\ hospitals \in HospitalSets
    /\ incStatus = [i \in IncidentIds |-> "PENDING"]
    /\ incAssigned = [i \in IncidentIds |-> 0]
    /\ activeSimulations = [i \in IncidentIds |-> 0]
    /\ sims = <<>>
    /\ timers = <<>>
    /\ tasks = EmptyBag
    /\ nRequests = 0
    /\ nCancels = 0
    /\ emitted = <<>>
    /\ lastWrite = NoWrite
    /\ obs = NoObs
    /\ hist = <<>>
    /\ cancelReturned = {}
    /\ claimed = {}

NextRoute ==
    \/ nRequests < MaxRouteRequests /\ DispatchRead("i1", NoType)
    \/ \E k \in 1..Len(timers) : InFlight(k) = 0 /\ TickFire(k)
    \/ \E t \in Pending :
         \/ DispatchWrite(t)
         \/ Lifecycle(t)

SpecRoute == InitRoute /\ [][NextRoute]_vars

-----------------------------------------------------------------------------
(* SpecPair: two incidents dispatched side by side, with or without          *)
(* hospitals, one of them cancelled at any moment.                           *)

NextPair ==
    \/ \E r \in PairRequests : nRequests < MaxPairRequests /\ DispatchRead(r[1], r[2])
    \/ nCancels < MaxCancels /\ CancelCall("i1")
    \/ \E k \in 1..Len(timers) : InFlight(k) = 0 /\ TickFire(k)
    \/ \E t \in Pending :
         \/ DispatchWrite(t)
         \/ Lifecycle(t)
         \/ EndWrite(t)
         \/ CancelWrite(t)

SpecPair == InitSlow /\ [][NextPair]_vars

-----------------------------------------------------------------------------
(* SpecHazard: one hazard check on every route and hazard table of the      *)
(* bounded sets.                                                            *)

NextHazard ==
    \E route \in HazardRoutes, table \in HazardTables : ApplyHazardPenalties(route, table)

SpecHazard == Init /\ [][NextHazard]_vars

-----------------------------------------------------------------------------
(* SpecPolyline: one interpolation on every path and progress of the        *)
(* bounded sets.                                                            *)

NextPolyline ==
    \E coordinates \in PolylinePaths, num \in ProgressNums, den \in ProgressDens :
        GetPositionAlongPolyline(coordinates, num, den)

SpecPolyline == Init /\ [][NextPolyline]_vars

-----------------------------------------------------------------------------
(* SpecScoring: one ranking of every hospital table of the bounded set.     *)

NextScoring ==
    \E rows \in ScoringTables, incidentTriage \in ScoringTriages :
        RankHospitals(rows, incidentTriage)

SpecScoring == Init /\ [][NextScoring]_vars

-----------------------------------------------------------------------------
(* SpecDestination: hospital selection on every hospital table and query of *)
(* the bounded sets.                                                        *)

InitDestination ==
    /\ ambStatus = [a \in Ambulances |-> "IDLE"]
    /\ ambPos = [a \in Ambulances |-> SeedPos[a]]
    /\ ambHospitalId = [a \in Ambulances |-> SeedHospitalId[a]]
    /\ ambType = [a \in Ambulances |-> SeedType[a]]
    /\ hospitals \in DestinationHospitalSets
    /\ incStatus = [i \in IncidentIds |-> "PENDING"]
    /\ incAssigned = [i \in IncidentIds |-> 0]
    /\ activeSimulations = [i \in IncidentIds |-> 0]
    /\ sims = <<>>
    /\ timers = <<>>
    /\ tasks = EmptyBag
    /\ nRequests = 0
    /\ nCancels = 0
    /\ emitted = <<>>
    /\ lastWrite = NoWrite
    /\ obs = NoObs
    /\ hist = <<>>
    /\ cancelReturned = {}
    /\ claimed = {}

NextDestination ==
    \E lat \in DestinationLats, severity \in Severities, requiredType \in RequiredTypes,
       triageType \in TriageTypes :
        FindBestHospital(lat, severity, requiredType, triageType)

SpecDestination == InitDestination /\ [][NextDestination]_vars

-----------------------------------------------------------------------------
(* Claims *)

Active == {i \in IncidentIds : activeSimulations[i] # 0}

SimIds == 1..Len(sims)

\* C1: after cancelSimulation(incidentId) has returned true, the cancelled lifecycle performs
\* no further write to the position or status of its ambulance (every AMBULANCE_UPDATE of a
\* lifecycle is broadcast by a step that also writes).
C1_NoWriteAfterCancel ==
    \A s \in cancelReturned : lastWrite.sim # s

\* C2: at most one lifecycle in the active set references a given ambulance id.
C2_OneLifecyclePerAmbulance ==
    \A i, j \in Active :
        i # j => sims[activeSimulations[i]].amb # sims[activeSimulations[j]].amb

\* C3: a dispatch request that arrives for an incident whose lifecycle is in the active set
\* changes no ambulance's status: the step after its read, the status write of that
\* request, leaves the ambulance table as it is.
C3_SecondDispatchNoOp ==
    [][(/\ obs.op = "dispatchRead"
        /\ activeSimulations[obs.inc] # 0
        /\ \E t \in Pending : t.pc = "dispatchWrite" /\ t.inc = obs.inc /\ DispatchWrite(t))
       => UNCHANGED ambStatus]_vars

\* a cancellation of simulation object s has been requested
Cancelled(s) ==
    \/ s \in cancelReturned
    \/ \E t \in Pending : t.pc = "cancelWrite" /\ t.sim = s

OutboundTimersOf(i) ==
    {k \in 1..Len(timers) : /\ timers[k].live
                            /\ timers[k].kind = "OUTBOUND"
                            /\ sims[timers[k].sim].inc = i
                            /\ ~Cancelled(timers[k].sim)}

\* C4: the lifecycles started for one incident that have neither completed nor been
\* cancelled run one sequence of OUTBOUND ticks between them.
C4_OneOutboundSequence ==
    \A i \in IncidentIds : Cardinality(OutboundTimersOf(i)) <= 1

\* C5: the events of one uncancelled lifecycle come in phase order, and ON_SCENE,
\* HOSPITAL_SELECTED and SIMULATION_COMPLETE are each emitted at most once.
C5_PhaseOrder ==
    \A s \in SimIds \ cancelReturned :
        /\ ~hist[s].outOfOrder
        /\ hist[s].onScene <= 1
        /\ hist[s].hospitalSelected <= 1
        /\ hist[s].complete <= 1

\* the ordering alone: a lifecycle is added to the active set only after the EN_ROUTE
\* write of the dispatch or assignment that starts it has completed (holds under Spec)
WriteBeforeRegistration ==
    \A i \in Active : <<i, sims[activeSimulations[i]].amb>> \in claimed

\* C6: the EN_ROUTE write of a dispatch completes before its lifecycle is added to the
\* active set, and no lifecycle in the active set has an ambulance that reads as IDLE.
C6_ActiveNeverIdle ==
    /\ WriteBeforeRegistration
    /\ \A i \in Active : ambStatus[sims[activeSimulations[i]].amb] # "IDLE"

Eligible(a, req) ==
    /\ ambStatus[a] = "IDLE"
    /\ req = NoType \/ TYPE_HIERARCHY[ambType[a]] >= TYPE_HIERARCHY[req]

Listed == {obs.list[i].id : i \in DOMAIN obs.list}

Ranked == obs.op \in {"getCandidates", "dispatchRead"}

EtaTo(a, lat) == calculateETA(ambPos[a], lat)

\* C7: no ambulance whose status is not IDLE is in the list getCandidates returns or in the
\* list dispatchToIncident ranks, and the ambulance dispatchToIncident picks is IDLE.
C7_OnlyIdle ==
    /\ Ranked => \A a \in Listed : ambStatus[a] = "IDLE"
    /\ obs.op = "dispatchRead" => ambStatus[obs.amb] = "IDLE"

C7_Witness ==
    /\ obs.op = "getCandidates"
    /\ obs.req = NoType
    /\ Listed # {}
    /\ \E a \in Ambulances : a \notin Listed /\ ambStatus[a] = "TRANSPORTING"

\* C8: with a required type, the ranked ambulances are exactly the IDLE ones whose tier in
\* RRV < BLS < ALS < CCT is at or above the required one, and so is the ambulance a dispatch
\* picks; with no required type the ranked ambulances are all the IDLE ones.
C8_TierFilter ==
    /\ Ranked => Listed = {a \in Ambulances : Eligible(a, obs.req)}
    /\ obs.op = "dispatchRead" /\ obs.req # NoType =>
          TYPE_HIERARCHY[ambType[obs.amb]] >= TYPE_HIERARCHY[obs.req]

C8_Witness ==
    /\ obs.op = "getCandidates"
    /\ obs.req = "ALS"
    /\ \E a \in Listed : ambType[a] = "CCT"
    /\ \E a \in Listed : ambType[a] = "ALS"
    /\ \E a \in Ambulances : ambStatus[a] = "IDLE" /\ ambType[a] = "BLS"

Precedes(c, d) ==
    \/ c.etaSeconds < d.etaSeconds
    \/ /\ c.etaSeconds = d.etaSeconds
       /\ \/ c.distanceMeters < d.distanceMeters
          \/ c.distanceMeters = d.distanceMeters /\ c.id < d.id

C10_DispatchBest ==
    /\ obs.op = "dispatch" /\ ~obs.success => \A a \in Ambulances : ~Eligible(a, obs.req)
    /\ obs.op = "dispatchRead" =>
          /\ obs.amb = obs.list[1].id
          /\ Eligible(obs.amb, obs.req)
          /\ \A a \in Ambulances :
                Eligible(a, obs.req) =>
                    EtaTo(obs.amb, IncidentLat[obs.inc]) <= EtaTo(a, IncidentLat[obs.inc])
    /\ obs.op = "dispatch" /\ obs.success => ambStatus[obs.amb] = "EN_ROUTE"

C10_Witness ==
    /\ obs.op = "dispatch" /\ obs.success
    /\ ambStatus[obs.amb] = "EN_ROUTE"
    /\ \E a \in Ambulances :
          /\ ambStatus[a] = "IDLE"
          /\ EtaTo(a, IncidentLat[obs.inc]) > EtaTo(obs.amb, IncidentLat[obs.inc])

NoEligible(req) == \A a \in Ambulances : ~Eligible(a, req)

\* C11: when no IDLE ambulance meets the required tier, getCandidates returns the empty list
\* and dispatchToIncident returns success = false, changes no ambulance, registers no
\* lifecycle and leaves nothing pending.
C11_NoCandidateFails ==
    [][/\ \A req \in RequiredTypes :
             NoEligible(req) /\ DispatchRead("i1", req) =>
                 /\ obs'.op = "dispatch" /\ ~obs'.success
                 /\ UNCHANGED <<dbAmbVars, incVars, simVars, tasks>>
       /\ \A lat \in SelectLats, req \in RequiredTypes :
             NoEligible(req) /\ GetCandidates(lat, req) =>
                 obs'.op = "getCandidates" /\ obs'.success /\ obs'.list = <<>>]_vars

C11_Witness ==
    /\ obs.op = "dispatch" /\ ~obs.success
    /\ obs.req = "CCT"
    /\ \E a \in Ambulances : ambStatus[a] = "IDLE" /\ ambType[a] = "ALS"
    /\ tasks = EmptyBag
    /\ Active = {}

\* the query of the last findBestHospital call of SpecDestination, and what it asked for
HospitalCall == obs.op = "findBestHospital" /\ obs.inc = ""

Query == obs.list[1]

Required == getRequiredCapabilities(Query.severity, obs.req, Query.triageType)

Matching ==
    {h \in hospitals : \E c \in HospitalCapabilities[h], r \in Required :
                          toUpperCase(c) = toUpperCase(r)}

NearestOf(S, lat) ==
    {h \in S : \A g \in S : haversineDistance(lat, HospitalLat[h])
                               <= haversineDistance(lat, HospitalLat[g])}

C16_AbsentCancelNoOp ==
    [][\A i \in IncidentIds :
          activeSimulations[i] = 0 /\ CancelCall(i) =>
              /\ obs' = Obs("cancel", i, NoType, FALSE, 0, <<>>)
              /\ UNCHANGED <<dbAmbVars, simVars, tasks, hist>>
              /\ emitted' = <<>>]_vars

C16_Witness ==
    /\ obs.op = "cancel" /\ ~obs.success /\ obs.inc = "i2"
    /\ Active = {"i1"}
    /\ \E a \in Ambulances : ambStatus[a] = "EN_ROUTE"
    /\ \E k \in 1..Len(timers) : timers[k].live

\* the pending continuations of lifecycle s
LifecycleTasksOf(s) == {t \in Pending : t.sim = s /\ t.pc # "cancelWrite"}

EndEvent(s) ==
    <<Event("AMBULANCE_UPDATE", sims[s].amb, sims[s].inc, "IDLE", "COMPLETE")>>

\* C17: when the DECISION phase finds no hospital the lifecycle ends early: its ambulance is
\* reset to IDLE, an event is emitted and its LifecycleState is removed; it never enters
\* INBOUND, its ambulance is never TRANSPORTING and no HOSPITAL_SELECTED is emitted.
C17_NoHospitalEndsEarly ==
    /\ \A t \in Pending :
          t.pc = "endWrite" =>
              sims[t.sim].phase = "DECISION" /\ hist[t.sim].hospitalSelected = 0
    /\ \A s \in SimIds :
          lastWrite.sim = s /\ emitted = EndEvent(s) =>
              /\ ambStatus[sims[s].amb] = "IDLE"
              /\ activeSimulations[sims[s].inc] = 0
              /\ LifecycleTasksOf(s) = {}
              /\ \A k \in 1..Len(timers) : timers[k].sim = s => ~timers[k].live
    /\ hospitals = {} =>
          /\ \A s \in SimIds :
                sims[s].phase \notin {"INBOUND", "COMPLETE"} /\ hist[s].hospitalSelected = 0
          /\ \A a \in Ambulances : ambStatus[a] # "TRANSPORTING"
          /\ \A i \in 1..Len(emitted) :
                emitted[i].type # "HOSPITAL_SELECTED" /\ emitted[i].status # "TRANSPORTING"

C17_Witness ==
    /\ hospitals = {} /\ nCancels = 0
    /\ \E s \in SimIds :
          /\ lastWrite.sim = s /\ emitted = EndEvent(s)
          /\ sims[s].phase = "DECISION"
          /\ ambStatus[sims[s].amb] = "IDLE"
          /\ ambPos[sims[s].amb] = sims[s].incidentLocation
    /\ Active = {}

\* C18: when a lifecycle reaches COMPLETE its ambulance has status IDLE, is parked at the
\* coordinates of the selected hospital and has that hospital as its home hospital,
\* SIMULATION_COMPLETE is emitted, and the incident id is no longer in the active set.
C18_CompleteState ==
    /\ \A i \in 1..Len(emitted) :
          emitted[i].type = "SIMULATION_COMPLETE" =>
              LET s == lastWrite.sim
                  a == emitted[i].amb
                  h == sims[s].hospitalId
              IN /\ h \in hospitals
                 /\ a = sims[s].amb
                 /\ ambStatus[a] = "IDLE"
                 /\ ambPos[a] = HospitalLat[h]
                 /\ ambHospitalId[a] = h
                 /\ activeSimulations[emitted[i].inc] = 0
    /\ \A s \in SimIds :
          sims[s].phase = "COMPLETE" /\ LifecycleTasksOf(s) = {} => hist[s].complete = 1

C18_Witness ==
    /\ nCancels = 0
    /\ \E i \in 1..Len(emitted) :
          /\ emitted[i].type = "SIMULATION_COMPLETE"
          /\ ambHospitalId[emitted[i].amb] # SeedHospitalId[emitted[i].amb]
          /\ ambPos[emitted[i].amb] = HospitalLat[ambHospitalId[emitted[i].amb]]
          /\ ambStatus[emitted[i].amb] = "IDLE"
    /\ Active = {}

\* C19: cancelSimulation on an incident in the active set, in any phase before COMPLETE,
\* stops the tick timer the lifecycle holds, sets the ambulance's status to IDLE and leaves
\* its stored position as it was, emits one SIMULATION_CANCELLED, removes the LifecycleState
\* and returns true.
C19_CancelEffects ==
    [][/\ \A i \in IncidentIds :
             activeSimulations[i] # 0 /\ CancelCall(i) =>
                 LET s == activeSimulations[i]
                 IN /\ sims[s].intervalId # 0 => ~timers'[sims[s].intervalId].live
                    /\ \A k \in 1..Len(timers) :
                          k # sims[s].intervalId => timers'[k] = timers[k]
                    /\ \E t \in DOMAIN tasks' :
                          t.pc = "cancelWrite" /\ t.inc = i /\ t.sim = s
       /\ \A t \in Pending :
             CancelWrite(t) =>
                 /\ ambStatus' = [ambStatus EXCEPT ![t.amb] = "IDLE"]
                 /\ t.amb = sims[t.sim].amb
                 /\ UNCHANGED <<ambPos, ambHospitalId, ambType>>
                 /\ emitted' = <<Event("SIMULATION_CANCELLED", t.amb, t.inc, "", "")>>
                 /\ activeSimulations'[t.inc] = 0
                 /\ obs'.op = "cancel" /\ obs'.success]_vars

C19_Witness ==
    /\ obs.op = "cancel" /\ obs.success /\ obs.inc = "i1"
    /\ ambStatus[obs.amb] = "IDLE"
    /\ ambPos[obs.amb] \notin {SeedPos[obs.amb], IncidentLat["i1"]}
    /\ ambPos[obs.amb] \notin {HospitalLat[h] : h \in HospitalIds}
    /\ \A k \in 1..Len(timers) : ~timers[k].live
    /\ Len(timers) = 1
    /\ Active = {}

StatusOrder == <<"PENDING", "DISPATCHED", "EN_ROUTE", "ON_SCENE", "TRANSPORTING", "COMPLETED">>

StatusRank(status) == CHOOSE k \in 1..Len(StatusOrder) : StatusOrder[k] = status

Forward(from, to) ==
    \/ to = from
    \/ /\ from \notin {"COMPLETED", "CANCELLED"}
       /\ \/ to = "CANCELLED"
          \/ to # "CANCELLED" /\ StatusRank(to) > StatusRank(from)

\* C20: an incident's status only moves forward along PENDING, DISPATCHED, EN_ROUTE, ON_SCENE,
\* TRANSPORTING, COMPLETED, or to CANCELLED from a status that is not terminal; no step moves
\* it backwards or out of COMPLETED or CANCELLED.
C20_StatusForward ==
    [][\A i \in IncidentIds : Forward(incStatus[i], incStatus'[i])]_vars

\* the phase of lifecycle s starts on the straight line from `from` to `to` with a fallback
\* ETA, and its next continuation `pc` is pending
StartsOnFallback(s, from, to, pc) ==
    /\ sims'[s].routeCoordinates = <<from, to>>
    /\ sims'[s].phaseEtaSeconds \in
          {Max(calculateETA(from, to), MIN_PHASE_DURATION_SECONDS),
           Max(getFallbackRoute(from, to).etaSeconds, MIN_PHASE_DURATION_SECONDS)}
    /\ sims'[s].phase = sims[s].phase
    /\ \E u \in DOMAIN tasks' : u.sim = s /\ u.pc = pc
    /\ UNCHANGED <<dbAmbVars, activeSimulations, timers>>

\* C21: when the routing provider fails as a lifecycle enters OUTBOUND or INBOUND, the failure
\* is not propagated: the phase starts on the straight line between its two endpoints and the
\* lifecycle goes on to the same continuation as with a provider route.
C21_FallbackRoute ==
    [][\A t \in Pending :
          /\ OutboundRoute(t) /\ ~obs'.success =>
                StartsOnFallback(t.sim, sims[t.sim].ambulanceLocation,
                                 sims[t.sim].incidentLocation, "outboundStatus")
          /\ InboundRoute(t) /\ ~obs'.success =>
                StartsOnFallback(t.sim, sims[t.sim].incidentLocation,
                                 HospitalLat[sims[t.sim].hospitalId], "inboundStatus")]_vars

C21_Witness ==
    /\ \E i \in 1..Len(emitted) : emitted[i].type = "SIMULATION_COMPLETE"
    /\ Len(timers) = 2
    /\ timers[1].totalSteps = totalStepsOf(calculateETA(SeedPos[3], IncidentLat["i1"]))
    /\ timers[1].totalSteps > totalStepsOf(MIN_PHASE_DURATION_SECONDS)
    /\ ambStatus[3] = "IDLE" /\ ambPos[3] = HospitalLat[ambHospitalId[3]]

\* lifecycle s is the one registered for its incident id
IsActive(s) == activeSimulations[sims[s].inc] = s

\* the step is one of lifecycle a: a tick of its timers, one of its continuations, or a
\* cancelSimulation of its incident id
StepOf(a) ==
    \/ \E k \in 1..Len(timers) : timers[k].sim = a /\ TickFire(k)
    \/ \E t \in Pending : t.sim = a /\ (Lifecycle(t) \/ EndWrite(t) \/ CancelWrite(t))
    \/ CancelCall(sims[a].inc)

\* the LifecycleState, the timers and the ambulance record of lifecycle b are as before
Untouched(b) ==
    /\ sims'[b] = sims[b]
    /\ activeSimulations'[sims[b].inc] = b
    /\ \A k \in 1..Len(timers) : timers[k].sim = b => timers'[k] = timers[k]
    /\ \A k \in 1..Len(timers') : timers'[k].sim = b => k <= Len(timers)
    /\ ambStatus'[sims[b].amb] = ambStatus[sims[b].amb]
    /\ ambPos'[sims[b].amb] = ambPos[sims[b].amb]
    /\ ambHospitalId'[sims[b].amb] = ambHospitalId[sims[b].amb]
    /\ ambType'[sims[b].amb] = ambType[sims[b].amb]

\* C22: for two active lifecycles A and B with different incident ids and different
\* ambulances, every step of A (tick, phase transition, early termination, completion,
\* cancellation, route failure) leaves B's LifecycleState, B's timers and B's ambulance
\* record unchanged.
C22_Independent ==
    [][\A a, b \in SimIds :
          /\ a # b /\ IsActive(a) /\ IsActive(b)
          /\ sims[a].inc # sims[b].inc /\ sims[a].amb # sims[b].amb
          /\ StepOf(a)
          => Untouched(b)]_vars

C22_Witness ==
    /\ obs.op = "cancel" /\ obs.success /\ obs.inc = "i1"
    /\ \E b \in SimIds :
          /\ IsActive(b) /\ sims[b].inc = "i2" /\ sims[b].amb # obs.amb
          /\ sims[b].phase = "OUTBOUND" /\ sims[b].progress[1] > 0
          /\ sims[b].intervalId # 0 /\ timers[sims[b].intervalId].live
          /\ ambStatus[sims[b].amb] = "EN_ROUTE"

\* the hazards of the table that are active and whose rectangle holds a coordinate of the route
Affecting(route, table) ==
    {i \in 1..Len(table) :
        /\ table[i].active
        /\ \E j \in 1..Len(route.coordinates) :
              LET lng == route.coordinates[j][1]
                  lat == route.coordinates[j][2]
                  b == table[i].bounds
              IN b.minLat <= lat /\ lat <= b.maxLat /\ b.minLng <= lng /\ lng <= b.maxLng}

\* C23: applyHazardPenalties returns the route with etaSeconds raised by 600 for each active
\* hazard whose rectangle contains a coordinate of the route (inactive hazards never count,
\* no hazard adds nothing), and with the geometry and the distance of the input.
C23_HazardPenalty ==
    obs.op = "applyHazardPenalties" =>
        LET route == obs.list[1]
            table == obs.list[2]
            result == obs.list[3]
        IN /\ result.etaSeconds = route.etaSeconds + 600 * Cardinality(Affecting(route, table))
           /\ result.coordinates = route.coordinates
           /\ result.distanceMeters = route.distanceMeters

C23_Witness ==
    /\ obs.op = "applyHazardPenalties"
    /\ obs.list[1].etaSeconds = 500 /\ obs.list[3].etaSeconds = 1100
    /\ Len(obs.list[2]) = 2 /\ ~obs.list[2][1].active /\ obs.list[2][2].active
    /\ obs.list[2][1].id = 3 /\ obs.list[2][2].id = 1
    /\ Len(obs.list[1].coordinates) = 2

\* C24: on a path of at least two points progress 0 gives exactly the first point and
\* progress 1 exactly the last; progress below 0 or above 1 gives the same two results; a
\* single-point path gives that point for every progress; the empty path is an error.
C24_PolylineEnds ==
    obs.op = "getPositionAlongPolyline" =>
        LET path == obs.list[1]
            num == obs.list[2]
            den == obs.list[3]
            position == obs.list[4]
        IN /\ Len(path) >= 2 /\ num <= 0 => position = path[1]
           /\ Len(path) >= 2 /\ num >= den => position = path[Len(path)]
           /\ Len(path) = 1 => position = path[1]
           /\ Len(path) = 0 <=> ~obs.success

C24_Witness ==
    /\ obs.op = "getPositionAlongPolyline"
    /\ obs.list[1] = <<10, 25, 0>>
    /\ obs.list[2] > obs.list[3]
    /\ obs.list[4] = 0

\* a tick of timer k fires in the phase the timer was started for
TickOf(k) == TickFire(k) /\ sims[timers[k].sim].phase = timers[k].kind

\* every movement phase lasts at least MIN_PHASE_DURATION_SECONDS and has one step a second
PhaseDuration ==
    \A k \in 1..Len(timers) :
        /\ sims[timers[k].sim].phaseEtaSeconds >= MIN_PHASE_DURATION_SECONDS
        /\ sims[timers[k].sim].phase = timers[k].kind =>
               timers[k].totalSteps = sims[timers[k].sim].phaseEtaSeconds

\* a tick sets progress to step/totalSteps, at most 1 and not below the progress before it
ProgressSteps ==
    \A k \in 1..Len(timers) :
        TickOf(k) =>
            LET before == sims[timers[k].sim].progress
                after == sims'[timers[k].sim].progress
            IN /\ after = <<Min(timers'[k].currentStep, timers[k].totalSteps), timers[k].totalSteps>>
               /\ after[1] <= after[2]
               /\ before[1] * after[2] <= after[1] * before[2]

\* the tick continuation t finds the phase complete and starts the next phase
Transition(t) ==
    /\ TickWrite(t)
    /\ timers[t.timer].currentStep >= timers[t.timer].totalSteps

\* a transition is started by a tick of a lifecycle that is still in the movement phase
TransitionOnce ==
    \A t \in Pending : Transition(t) => sims[t.sim].phase = timers[t.timer].kind

\* C25: a movement phase lasts max(etaSeconds, 5) seconds, progress is step/totalSteps,
\* non-decreasing within [0, 1], and the transition to the next phase is started exactly once,
\* also when a tick fires while the tick before it still awaits its write.
C25_MovementPhase == [][PhaseDuration /\ ProgressSteps /\ TransitionOnce]_vars

C25_Duration == [][PhaseDuration]_vars
C25_Progress == [][ProgressSteps]_vars
C25_Once == [][TransitionOnce]_vars

\* C26: from a lifecycle's entry into ON_SCENE to its entry into DECISION the lifecycle
\* writes no position of its ambulance and broadcasts nothing but the one ON_SCENE status
\* event.
C26_OnSceneQuiet ==
    [][\A s \in SimIds :
          sims[s].phase = "ON_SCENE" /\ lastWrite'.sim = s =>
              /\ "position" \notin lastWrite'.fields
              /\ ambPos' = ambPos
              /\ \A i \in 1..Len(emitted') : emitted'[i].status = "ON_SCENE"
              /\ hist'[s].onScene <= 1]_vars

\* C27: when every hospital has the default load of 50, the ranking returns the capable
\* hospitals in the order of non-decreasing hazard-penalized ETA.
C27_EtaOrder ==
    obs.op = "rankHospitals" =>
        LET ranked == obs.list[3]
        IN \A i \in 1..Len(ranked), j \in 1..Len(ranked) :
               i < j => ranked[i].etaSeconds <= ranked[j].etaSeconds

\* the order of the scores, which the sort does establish
C27_ScoreOrder ==
    obs.op = "rankHospitals" =>
        LET ranked == obs.list[3]
        IN \A i \in 1..Len(ranked), j \in 1..Len(ranked) :
               i < j => ranked[i].score >= ranked[j].score

\* the live setInterval timers of the lifecycles of incident inc
LiveTimers(inc) ==
    {k \in 1..Len(timers) : timers[k].live /\ sims[timers[k].sim].inc = inc}

\* the incidents for which a setTimeout of the ON_SCENE dwell is pending
DwellTimers == {t.inc : t \in {u \in Pending : u.pc = "dwell"}}

OneTimerPerIncident == \A inc \in IncidentIds : Cardinality(LiveTimers(inc)) <= 1

NoTimerOfAbsent ==
    \A inc \in IncidentIds \ Active : LiveTimers(inc) = {} /\ inc \notin DwellTimers

\* C28: in every reachable state at most one repeating tick timer is live per incident id,
\* and no tick timer or dwell timer is live for an incident id absent from the active set.
C28_TimersOfActive == OneTimerPerIncident /\ NoTimerOfAbsent

\* a dispatch or assign request has not yet registered its lifecycle
RequestInProgress ==
    \E t \in Pending :
        t.pc \in {"dispatchWrite", "startLifecycle", "assignIncident", "assignAmbulance"}

\* ambulance a is the ambulance of a lifecycle of the active set
Driven(a) == \E inc \in Active : sims[activeSimulations[inc]].amb = a

\* C29: whenever no dispatch or assign request is in progress, every ambulance whose stored
\* status is not IDLE is the ambulance of some lifecycle in the active set.
C29_NoStrandedAmbulance ==
    ~RequestInProgress => \A a \in Ambulances : ambStatus[a] # "IDLE" => Driven(a)

\* SimulationService.getActiveCount
getActiveCount == Cardinality(Active)

\* lifecycle s is the entry of its incident in the active set
Registered(s) == activeSimulations[sims[s].inc] = s

\* the step in which lifecycle s leaves the active set
Leaves(s) == Registered(s) /\ activeSimulations'[sims[s].inc] # s

\* a lifecycle leaves the active set with its ambulance IDLE and is no longer counted
LeavesIdle ==
    \A s \in SimIds :
        Leaves(s) => /\ ambStatus'[sims[s].amb] = "IDLE"
                     /\ getActiveCount' = getActiveCount - 1

\* a lifecycle that has left does not take its ambulance out of IDLE again
StaysIdle ==
    \A s \in SimIds :
        ~Registered(s) /\ lastWrite'.sim = s /\ "status" \in lastWrite'.fields =>
            ambStatus'[sims[s].amb] = "IDLE"

\* C30: a lifecycle registered by startLifecycle leaves the active set by completion, early
\* termination or cancellation, and after it has left its ambulance's status is IDLE and
\* getActiveCount no longer counts it.
C30_LeftIdle == [][LeavesIdle /\ StaysIdle]_vars

\* under fair scheduling the registered lifecycle does leave the active set
C30_EventuallyLeaves ==
    \A s \in 1..MaxLifecycleRequests :
        (s \in SimIds /\ Registered(s)) ~> ~(s \in SimIds /\ Registered(s))

C30_LeavesIdle == [][LeavesIdle]_vars
C30_StaysIdle == [][StaysIdle]_vars
====
